---- MODULE Spec2Model ----
(***************************************************************************)
(* The four standalone scripts of the repository, each a straight-line     *)
(* process:                                                                *)
(*   langchain-document-loaders-main/directory_loader.py  (batch, lazy)    *)
(*   langchain-document-loaders-main/pdf_loader.py        (single, eager)  *)
(*   langchain-prompts-main/temperature.py                (model call)     *)
(*   langchain-structured-output-main/typeddict_demo.py   (record shape)   *)
(* A behaviour is one run of one script (pdf_loader.py may be run again on *)
(* the same, unchanged file).  The statements of the scripts are the       *)
(* actions named D_, P_, M_ and T_.  The collaborators the scripts call:   *)
(* the PDF-parsing library, the chat-completion client and its remote      *)
(* endpoint, are not part of the repository; what they do is modelled from *)
(* the interface the specification gives them, in the definitions named    *)
(* PyPDF, G_ and C_.                                                       *)
(***************************************************************************)
EXTENDS Integers, Sequences, FiniteSets

\* ------------------------------------------------------------------ bounds
MaxFiles == 3     \* directory entries of books/
MaxPages == 3     \* pages of one PDF file
MaxRuns  == 2     \* runs of pdf_loader.py over the same file

VARIABLES
    script,       \* which script this process runs
    pc,           \* position in the script
    exit,         \* "running", "0" (success) or "1" (uncaught failure)
    error,        \* the uncaught failure, "" when none
    stdout,       \* what has been printed, in order
    \* directory_loader.py
    booksExists,  \* whether books/ exists and is readable
    books,        \* entry id -> file of books/ (or absent)
    enumerated,   \* the generator has listed the directory
    remaining,    \* matching files the generator has not reached yet
    opened,       \* the files handed to the page parser, in order
    buffer,       \* Documents of the current file not yet yielded
    produced,     \* the Documents the sequence has yielded, in order
    document,     \* the loop variable
    \* pdf_loader.py
    pdf,          \* the file dl-curriculum.pdf
    docs,         \* the list load() returned
    parsedPages,  \* pages of dl-curriculum.pdf parsed in this run
    run,          \* which run of pdf_loader.py this is
    first,        \* the list the first run's load() returned
    \* temperature.py
    cred,         \* the credential the environment file supplies
    requests,     \* requests sent to the remote endpoint
    result,       \* the response invoke() returned
    \* typeddict_demo.py
    new_person

vars == <<script, pc, exit, error, stdout, booksExists, books, enumerated,
          remaining, opened, buffer, produced, document, pdf, docs,
          parsedPages, run, first, cred, requests, result, new_person>>

dirVars  == <<booksExists, books, enumerated, remaining, opened, buffer,
              produced, document>>
pdfVars  == <<pdf, docs, parsedPages, run, first>>
llmVars  == <<cred, requests, result>>

\* ------------------------------------------------------------- documents
Absent == [ext |-> "", pages |-> 0]

\* One page of one file as the parsing collaborator returns it: the page's
\* text and a metadata mapping with the source file and the 0-based page index.
Document(src, i) ==
    [page_content |-> <<"text", src, i>>,
     metadata     |-> [source |-> src, page |-> i - 1]]

NoDocument == [page_content |-> <<>>, metadata |-> [source |-> "", page |-> -1]]

\* parse_file: the pages of one file, in page order, index 0 = first page.
PyPDFLoader_load(src, n) == [i \in 1..n |-> Document(src, i)]

\* A filename is stem.ext; a glob has "*" where anything matches.
GlobAnyFile == [stem |-> "*", ext |-> "*"]

LoaderGlob == [stem |-> "*", ext |-> "pdf"]

Matches(glob, stem, ext) ==
    /\ glob.stem = "*" \/ glob.stem = stem
    /\ glob.ext = "*" \/ glob.ext = ext

Present == {f \in 1..MaxFiles : books[f] # Absent}
Matching == {f \in Present : Matches(LoaderGlob, f, books[f].ext)}

Perms(S) == {s \in [1..Cardinality(S) -> S] :
                \A i, j \in 1..Cardinality(S) : s[i] = s[j] => i = j}

RECURSIVE Concat(_, _)
Concat(ord, n) ==
    IF n = 0 THEN <<>>
    ELSE Concat(ord, n - 1) \o PyPDFLoader_load(ord[n], books[ord[n]].pages)

\* --------------------------------------------------------------- initial
ScriptNames == {"directory_loader", "pdf_loader", "temperature", "typeddict_demo"}

NoPdf == [exists |-> FALSE, valid |-> FALSE, pages |-> 0]

Init ==
    /\ script \in ScriptNames
    /\ pc = "start"
    /\ exit = "running"
    /\ error = ""
    /\ stdout = <<>>
    /\ booksExists \in (IF script = "directory_loader" THEN BOOLEAN ELSE {FALSE})
    /\ books \in (IF booksExists
                  THEN [1..MaxFiles ->
                          {Absent} \cup [ext : {"pdf", "txt"}, pages : 0..MaxPages]]
                  ELSE {[f \in 1..MaxFiles |-> Absent]})
    /\ enumerated = FALSE
    /\ remaining = {}
    /\ opened = <<>>
    /\ buffer = <<>>
    /\ produced = <<>>
    /\ document = NoDocument
    /\ pdf \in (IF script = "pdf_loader"
                THEN {NoPdf} \cup [exists : {TRUE}, valid : BOOLEAN, pages : 0..MaxPages]
                ELSE {NoPdf})
    /\ docs = <<>>
    /\ parsedPages = 0
    /\ run = 1
    /\ first = <<>>
    /\ cred \in (IF script = "temperature" THEN {"valid", "invalid", "absent"} ELSE {"absent"})
    /\ requests = 0
    /\ result = [content |-> ""]
    /\ new_person = [name |-> [type |-> "", v |-> ""], age |-> [type |-> "", v |-> ""]]

\* An uncaught failure ends the process with a non-zero status.
Fail(what) ==
    /\ pc' = "failed"
    /\ exit' = "1"
    /\ error' = what

Finish ==
    /\ pc' = "done"
    /\ exit' = "0"
    /\ error' = error

\* ------------------------------------------------- directory_loader.py
\* Lines 3-7: DirectoryLoader(path='books', glob='*.pdf', loader_cls=PyPDFLoader).
\* Constructing the loader touches no file.
D_CreateLoader ==
    /\ script = "directory_loader" /\ pc = "start"
    /\ pc' = "loader"
    /\ UNCHANGED <<script, exit, error, stdout, dirVars, pdfVars, llmVars, new_person>>

\* What line 9 would do had it called load(): every matching file is parsed
\* before the call returns.
D_EagerLoad ==
    /\ script = "directory_loader" /\ pc = "loader"
    /\ booksExists
    /\ \E ord \in Perms(Matching) :
          /\ opened' = ord
          /\ buffer' = Concat(ord, Len(ord))
    /\ enumerated' = TRUE
    /\ remaining' = {}
    /\ pc' = "iter"
    /\ UNCHANGED <<script, exit, error, stdout, booksExists, books, produced,
                   document, pdfVars, llmVars, new_person>>

\* Line 9: docs = loader.lazy_load().  The call only creates the lazy
\* sequence: nothing is listed, opened or parsed.
D_LazyLoad ==
    /\ script = "directory_loader" /\ pc = "loader"
    /\ pc' = "iter"
    /\ UNCHANGED <<script, exit, error, stdout, dirVars, pdfVars, llmVars, new_person>>

\* Line 11: the for statement asks the sequence for its next element.
D_ForNext ==
    /\ script = "directory_loader" /\ pc = "iter"
    /\ pc' = "next"
    /\ UNCHANGED <<script, exit, error, stdout, dirVars, pdfVars, llmVars, new_person>>

\* The lazy sequence, resumed by a pending request: it lists the directory
\* on the first request (failing when books/ cannot be read) ...
G_Enumerate ==
    /\ script = "directory_loader" /\ pc = "next" /\ ~enumerated
    /\ IF booksExists
       THEN /\ enumerated' = TRUE
            /\ remaining' = Matching
            /\ UNCHANGED <<pc, exit, error>>
       ELSE /\ Fail("FileNotFoundError")
            /\ UNCHANGED <<enumerated, remaining>>
    /\ UNCHANGED <<script, stdout, booksExists, books, opened, buffer, produced,
                   document, pdfVars, llmVars, new_person>>

\* ... hands the next matching file, in an order the platform decides, to the
\* page parser when the current file's Documents are used up ...
G_OpenFile ==
    /\ script = "directory_loader" /\ pc = "next" /\ enumerated
    /\ buffer = <<>>
    /\ \E f \in remaining :
          /\ remaining' = remaining \ {f}
          /\ opened' = Append(opened, f)
          /\ buffer' = PyPDFLoader_load(f, books[f].pages)
    /\ UNCHANGED <<script, pc, exit, error, stdout, booksExists, books, enumerated,
                   produced, document, pdfVars, llmVars, new_person>>

\* ... fails when the file it reaches cannot be parsed ...
G_ParseError ==
    /\ script = "directory_loader" /\ pc = "next" /\ enumerated
    /\ buffer = <<>>
    /\ \E f \in remaining :
          /\ remaining' = remaining \ {f}
          /\ opened' = Append(opened, f)
    /\ Fail("PdfReadError")
    /\ UNCHANGED <<script, stdout, booksExists, books, enumerated, buffer,
                   produced, document, pdfVars, llmVars, new_person>>

\* ... yields one Document per request ...
G_Yield ==
    /\ script = "directory_loader" /\ pc = "next" /\ enumerated
    /\ buffer # <<>>
    /\ document' = Head(buffer)
    /\ buffer' = Tail(buffer)
    /\ produced' = Append(produced, Head(buffer))
    /\ pc' = "body"
    /\ UNCHANGED <<script, exit, error, stdout, booksExists, books, enumerated,
                   remaining, opened, pdfVars, llmVars, new_person>>

\* ... and ends after the last file; the for loop ends with it and the
\* script falls off its end.
G_Stop ==
    /\ script = "directory_loader" /\ pc = "next" /\ enumerated
    /\ buffer = <<>> /\ remaining = {}
    /\ Finish
    /\ UNCHANGED <<script, stdout, dirVars, pdfVars, llmVars, new_person>>

\* print(x) appends x to standard output.
PyPrintFirst(out, x) == <<x>> \o out

PyPrint(out, x) == Append(out, x)

\* Line 12: print(document.metadata).
D_PrintMetadata ==
    /\ script = "directory_loader" /\ pc = "body"
    /\ stdout' = PyPrint(stdout, document.metadata)
    /\ pc' = "iter"
    /\ UNCHANGED <<script, exit, error, dirVars, pdfVars, llmVars, new_person>>

DirNext ==
    \/ D_CreateLoader \/ D_LazyLoad \/ D_ForNext \/ D_PrintMetadata
    \/ G_Enumerate \/ G_OpenFile \/ G_ParseError \/ G_Yield \/ G_Stop

\* ------------------------------------------------------- pdf_loader.py
FilePathOfRun == IF run = 1 THEN "dl-curriculum.pdf" ELSE "dl-curriculum-2.pdf"

FilePath == "dl-curriculum.pdf"

\* Line 3: PyPDFLoader('dl-curriculum.pdf').  A missing file may already be
\* refused here.
P_CreateLoader ==
    /\ script = "pdf_loader" /\ pc = "start"
    /\ \/ /\ pc' = "loader"
          /\ UNCHANGED <<exit, error>>
       \/ /\ ~pdf.exists
          /\ Fail("FileNotFoundError")
    /\ UNCHANGED <<script, stdout, dirVars, pdfVars, llmVars, new_person>>

\* Line 5: docs = loader.load().  The whole file is parsed before the call
\* returns; a missing or invalid file fails.
P_Load ==
    /\ script = "pdf_loader" /\ pc = "loader"
    /\ IF pdf.exists /\ pdf.valid
       THEN /\ docs' = PyPDFLoader_load(FilePath, pdf.pages)
            /\ parsedPages' = pdf.pages
            /\ pc' = "line7"
            /\ UNCHANGED <<exit, error>>
       ELSE /\ Fail(IF pdf.exists THEN "PdfReadError" ELSE "FileNotFoundError")
            /\ UNCHANGED <<docs, parsedPages>>
    /\ UNCHANGED <<script, stdout, dirVars, pdf, run, first, llmVars, new_person>>

\* len(docs)
LenMinusOne(d) == Len(d) - 1

PyLen(d) == Len(d)

\* Line 7: print(len(docs)).
P_PrintLen ==
    /\ script = "pdf_loader" /\ pc = "line7"
    /\ stdout' = PyPrint(stdout, [int |-> PyLen(docs)])
    /\ pc' = "line9"
    /\ UNCHANGED <<script, exit, error, dirVars, pdfVars, llmVars, new_person>>

\* d[i] on a Python list, i >= 0: element i (0-based), IndexError past the end.
InBounds(d, i) == i < Len(d)
Item(d, i) == d[i + 1]

ContentIndex == 0

\* Line 9: print(docs[0].page_content).
P_PrintContent ==
    /\ script = "pdf_loader" /\ pc = "line9"
    /\ IF InBounds(docs, ContentIndex)
       THEN /\ stdout' = PyPrint(stdout, [text |-> Item(docs, ContentIndex).page_content])
            /\ pc' = "line10"
            /\ UNCHANGED <<exit, error>>
       ELSE /\ Fail("IndexError")
            /\ UNCHANGED stdout
    /\ UNCHANGED <<script, dirVars, pdfVars, llmVars, new_person>>

MetadataIndexOff == 1 - 1

MetadataIndex == 1

\* Line 10: print(docs[1].metadata), the last statement.
P_PrintMetadata ==
    /\ script = "pdf_loader" /\ pc = "line10"
    /\ IF InBounds(docs, MetadataIndex)
       THEN /\ stdout' = PyPrint(stdout, Item(docs, MetadataIndex).metadata)
            /\ Finish
       ELSE /\ Fail("IndexError")
            /\ UNCHANGED stdout
    /\ UNCHANGED <<script, dirVars, pdfVars, llmVars, new_person>>

\* The script is started again on the same file: a new process, with what
\* the previous run's load() returned kept aside for comparison.
P_RunAgain ==
    /\ script = "pdf_loader" /\ pc = "done" /\ run < MaxRuns
    /\ run' = run + 1
    /\ first' = IF run = 1 THEN docs ELSE first
    /\ docs' = <<>>
    /\ parsedPages' = 0
    /\ stdout' = <<>>
    /\ pc' = "start"
    /\ exit' = "running"
    /\ error' = ""
    /\ UNCHANGED <<script, dirVars, pdf, llmVars, new_person>>

PdfNext ==
    \/ P_CreateLoader \/ P_Load \/ P_PrintLen \/ P_PrintContent
    \/ P_PrintMetadata \/ P_RunAgain

\* ------------------------------------------------------ temperature.py
Prompt == "Write a 5 line poem on cricket"

\* The texts the remote model may answer the prompt with.
Responses == {"poem A", "poem B"}

\* Line 4: load_dotenv().  Populates the process environment from the local
\* environment file; it does not fail when the credential is not there.
M_LoadDotenv ==
    /\ script = "temperature" /\ pc = "start"
    /\ pc' = "env"
    /\ UNCHANGED <<script, exit, error, stdout, dirVars, pdfVars, llmVars, new_person>>

\* Line 6: model = ChatOpenAI(model='gpt-4', temperature=1.5).  No request is
\* sent; the client may refuse to be built without a credential.
M_Configure ==
    /\ script = "temperature" /\ pc = "env"
    /\ \/ /\ pc' = "client"
          /\ UNCHANGED <<exit, error>>
       \/ /\ cred = "absent"
          /\ Fail("MissingCredential")
    /\ UNCHANGED <<script, stdout, dirVars, pdfVars, llmVars, new_person>>

\* Line 11: result = model.invoke(Prompt).  The call sends the request and
\* blocks for the answer.
M_Invoke ==
    /\ script = "temperature" /\ pc = "client"
    /\ requests' = requests + 1
    /\ pc' = "waiting"
    /\ UNCHANGED <<script, exit, error, stdout, dirVars, pdfVars, cred, result, new_person>>

\* Where the script goes when invoke() raises: there is no handler around
\* line 11, so the failure ends the process.
RetryInvoke == "client"

AfterInvokeFailure == "failed"

\* The remote endpoint answers the request with a response ...
C_Respond ==
    /\ script = "temperature" /\ pc = "waiting"
    /\ cred = "valid"
    /\ \E text \in Responses : result' = [content |-> text]
    /\ pc' = "line13"
    /\ UNCHANGED <<script, exit, error, stdout, dirVars, pdfVars, cred, requests, new_person>>

\* ... or the call fails: the credential is refused, the call times out, or
\* the remote service returns an error.
C_Fail ==
    /\ script = "temperature" /\ pc = "waiting"
    /\ \E what \in {"AuthenticationError", "Timeout", "RemoteServiceError"} :
          /\ (what = "AuthenticationError") <=> (cred # "valid")
          /\ pc' = AfterInvokeFailure
          /\ exit' = IF AfterInvokeFailure = "failed" THEN "1" ELSE exit
          /\ error' = what
    /\ UNCHANGED <<script, stdout, dirVars, pdfVars, llmVars, new_person>>

\* Line 13: print(result.content), the last statement.
M_Print ==
    /\ script = "temperature" /\ pc = "line13"
    /\ stdout' = PyPrint(stdout, [text |-> result.content])
    /\ Finish
    /\ UNCHANGED <<script, dirVars, pdfVars, llmVars, new_person>>

LlmNext == M_LoadDotenv \/ M_Configure \/ M_Invoke \/ C_Respond \/ C_Fail \/ M_Print

\* --------------------------------------------------- typeddict_demo.py
Str(s) == [type |-> "str", v |-> s]

\* Lines 7-10: class Person(TypedDict): name: str; age: int.
Person == [name |-> "str", age |-> "int"]

\* Line 12, the right-hand side: {'name':'nitish', 'age':'35'}.
PersonLiteral == [name |-> Str("nitish"), age |-> Str("35")]

\* An assignment that checked the value against the annotation.
CheckedAssign(shape, value) ==
    IF \A k \in DOMAIN shape : value[k].type = shape[k]
    THEN [ok |-> TRUE, value |-> value]
    ELSE [ok |-> FALSE, value |-> value]

\* An annotated assignment, name: shape = value.  The annotation is a hint:
\* the value is bound as it is, neither checked nor converted.
AnnotatedAssign(shape, value) == [ok |-> TRUE, value |-> value]

T_DeclarePerson ==
    /\ script = "typeddict_demo" /\ pc = "start"
    /\ pc' = "line12"
    /\ UNCHANGED <<script, exit, error, stdout, dirVars, pdfVars, llmVars, new_person>>

\* Line 12: new_person: Person = {'name':'nitish', 'age':'35'}.
T_Construct ==
    /\ script = "typeddict_demo" /\ pc = "line12"
    /\ LET r == AnnotatedAssign(Person, PersonLiteral)
       IN  IF r.ok
           THEN /\ new_person' = r.value
                /\ pc' = "line14"
                /\ UNCHANGED <<exit, error>>
           ELSE /\ Fail("TypeError")
                /\ UNCHANGED new_person
    /\ UNCHANGED <<script, stdout, dirVars, pdfVars, llmVars>>

\* Line 14: print(new_person), the last statement.
T_Print ==
    /\ script = "typeddict_demo" /\ pc = "line14"
    /\ stdout' = PyPrint(stdout, new_person)
    /\ Finish
    /\ UNCHANGED <<script, dirVars, pdfVars, llmVars, new_person>>

RecordNext == T_DeclarePerson \/ T_Construct \/ T_Print

\* ----------------------------------------------------------------- spec
Next == DirNext \/ PdfNext \/ LlmNext \/ RecordNext

Spec == Init /\ [][Next]_vars

\* ============================================================== claims
IsPdf(f) == books[f] # Absent /\ books[f].ext = "pdf"
PdfFiles == {f \in 1..MaxFiles : IsPdf(f)}

RECURSIVE SumPages(_)
SumPages(S) ==
    IF S = {} THEN 0
    ELSE LET f == CHOOSE x \in S : TRUE
         IN  books[f].pages + SumPages(S \ {f})

TotalPdfPages == SumPages(PdfFiles)

Sources(seq) == {seq[i].metadata.source : i \in 1..Len(seq)}

\* C1: a run of directory_loader.py that consumes the sequence to its end
\* over a directory whose *.pdf files hold P pages in total has yielded
\* exactly P Documents, each page of each *.pdf file exactly once, and has
\* printed exactly P metadata mappings, the i-th being that of the i-th
\* Document; no Document comes from a file the glob does not match.  While
\* the loop runs, one mapping is printed per Document consumed.
C1_BatchYieldsEveryPage ==
    script = "directory_loader" =>
       /\ Len(stdout) = Len(produced) - (IF pc = "body" THEN 1 ELSE 0)
       /\ \A i \in 1..Len(stdout) : stdout[i] = produced[i].metadata
       /\ \A i \in 1..Len(produced) : IsPdf(produced[i].metadata.source)
       /\ pc = "done" =>
             /\ Len(produced) = TotalPdfPages
             /\ Len(stdout) = TotalPdfPages
             /\ \A f \in PdfFiles : \A p \in 1..books[f].pages :
                   Cardinality({i \in 1..Len(produced) : produced[i] = Document(f, p)}) = 1

C1_Witness ==
    /\ script = "directory_loader" /\ pc = "done"
    /\ Cardinality(PdfFiles) = 2
    /\ \E f \in 1..MaxFiles : books[f].ext = "txt" /\ books[f].pages > 0
    /\ TotalPdfPages = 5
    /\ Len(stdout) = 5

\* C2: the sequence is lazy.  Creating it (line 9) lists, opens and parses
\* nothing.  When K Documents have been consumed and no further element has
\* been asked for (the sequence is neither resumed nor ended), the last file handed to the parser is the file the K-th
\* Document came from, so no file positioned after it has been opened; and
\* every file that was opened either is the source of a Document already
\* consumed, or is an empty file that had to be opened on the way, or is the
\* one file the pending request for Document K+1 has just reached.  No file
\* is parsed twice.
C2_LazyParsing ==
    script = "directory_loader" =>
       LET K == Len(produced)
           pending == pc \in {"next", "failed", "done"}
       IN  /\ (K = 0 /\ ~pending) => (opened = <<>> /\ ~enumerated /\ buffer = <<>>)
           /\ (K > 0 /\ ~pending) =>
                 /\ opened # <<>>
                 /\ opened[Len(opened)] = produced[K].metadata.source
           /\ \A j \in 1..Len(opened) :
                 \/ opened[j] \in Sources(produced)
                 \/ books[opened[j]].pages = 0
                 \/ j = Len(opened) /\ pending
           /\ \A i, j \in 1..Len(opened) : opened[i] = opened[j] => i = j
           /\ \A j \in 1..Len(opened) : opened[j] \notin remaining

C2_Witness ==
    /\ script = "directory_loader" /\ pc = "body"
    /\ Len(produced) = 2
    /\ Len(opened) = 1
    /\ \E f \in remaining : books[f].pages > 0

\* A sequence of metadata mappings is file-grouped and in page order: the
\* mappings of one source are contiguous, start at page index 0 and count up.
FileGrouped(md) ==
    /\ \A i \in 1..Len(md) :
          (i = 1 \/ md[i - 1].source # md[i].source) => md[i].page = 0
    /\ \A i \in 2..Len(md) :
          md[i - 1].source = md[i].source => md[i].page = md[i - 1].page + 1
    /\ \A i, j \in 1..Len(md) :
          (i < j /\ md[i].source = md[j].source) =>
             \A k \in i..j : md[k].source = md[i].source

\* C10: at every point of a run of directory_loader.py the Documents yielded
\* so far, and the metadata printed so far, are file-grouped and in page
\* order: the Documents of one file are contiguous and never interleaved
\* with another file's.  The order among the files is the platform's.
C10_FileGroupedOrder ==
    script = "directory_loader" =>
       /\ FileGrouped([i \in 1..Len(produced) |-> produced[i].metadata])
       /\ FileGrouped(stdout)

\* books/ holds a 2-page and a 3-page PDF and the 3-page one came first.
C10_Witness ==
    /\ script = "directory_loader" /\ pc = "done"
    /\ IsPdf(1) /\ books[1].pages = 2
    /\ IsPdf(2) /\ books[2].pages = 3
    /\ ~IsPdf(3)
    /\ Len(stdout) = 5
    /\ stdout[1].source = 2 /\ stdout[4].source = 1 /\ stdout[5].page = 1

Loaded == pc \in {"line7", "line9", "line10", "done"}

\* C4: in pdf_loader.py, once load() has returned, docs is the whole file:
\* its length is the file's page count and element i (0-based) is the
\* Document of page i+1.  Nothing is printed before the whole file is parsed,
\* and the first thing printed is the page count.
C4_EagerInPageOrder ==
    script = "pdf_loader" =>
       /\ Loaded =>
             /\ Len(docs) = pdf.pages
             /\ \A i \in 0..(pdf.pages - 1) : Item(docs, i) = Document("dl-curriculum.pdf", i + 1)
       /\ stdout # <<>> =>
             /\ parsedPages = pdf.pages
             /\ Len(docs) = pdf.pages
             /\ stdout[1] = [int |-> pdf.pages]

C4_Witness ==
    /\ script = "pdf_loader" /\ pc = "line9"
    /\ pdf.pages = 3
    /\ stdout = <<[int |-> 3]>>
    /\ Item(docs, 2).metadata.page = 2

\* C5: a run of pdf_loader.py that ends in an IndexError is a run over a file
\* of fewer than 2 pages, ends with a non-zero status, and has printed the
\* count and the content of page 0 (1 page: the failure is at line 10) or the
\* count alone (0 pages: the failure is at line 9).  A run over a parsed file
\* of fewer than 2 pages never ends in success, never reaches line 10 with
\* 0 pages and never stops short of its end: after load() a statement can
\* always run until the run has ended.  A run over 2 or more pages has no IndexError and ends
\* having printed the count, the content of page 0 and the metadata of page
\* 1, in that order.
C5_IndexErrorBelowTwoPages ==
    script = "pdf_loader" =>
       LET n == pdf.pages
           count == [int |-> n]
           content0 == [text |-> Document("dl-curriculum.pdf", 1).page_content]
           metadata1 == Document("dl-curriculum.pdf", 2).metadata
       IN  /\ (pc = "failed" /\ error = "IndexError") =>
                 /\ n < 2
                 /\ exit = "1"
                 /\ n = 1 => stdout = <<count, content0>>
                 /\ n = 0 => stdout = <<count>>
           /\ pc = "done" =>
                 /\ n >= 2
                 /\ exit = "0"
                 /\ stdout = <<count, content0, metadata1>>
           /\ pc = "line10" => n >= 1
           /\ pc \in {"line7", "line9", "line10"} => ENABLED PdfNext
           /\ n >= 2 => error # "IndexError"

C5_Witness ==
    /\ script = "pdf_loader" /\ pc = "failed" /\ error = "IndexError"
    /\ pdf.pages = 1
    /\ Len(stdout) = 2

\* C6: typeddict_demo.py never fails; from line 12 on new_person holds
\* exactly the values written, the age still the text '35'; the script
\* reaches its print and prints that record.
C6_NoValidationNoCoercion ==
    script = "typeddict_demo" =>
       /\ pc # "failed" /\ error = "" /\ exit # "1"
       /\ pc \in {"line14", "done"} =>
             /\ new_person.name = [type |-> "str", v |-> "nitish"]
             /\ new_person.age = [type |-> "str", v |-> "35"]
       /\ pc = "done" => stdout = <<new_person>>
       /\ stdout # <<>> => pc = "done"

C6_Witness ==
    /\ script = "typeddict_demo" /\ pc = "done" /\ exit = "0"
    /\ Len(stdout) = 1
    /\ stdout[1].age.type = "str" /\ stdout[1].age.v = "35"
    /\ Person.age = "int"

\* C7: temperature.py calls invoke() at most once, so at most one request is
\* sent in a run.  A failed run has printed nothing and ends with a non-zero
\* status; a successful run has sent exactly one request and printed the
\* response's content exactly once, after the response was received.
C7_NoRetryFailurePropagates ==
    script = "temperature" =>
       /\ requests <= 1
       /\ pc = "failed" => (stdout = <<>> /\ exit = "1" /\ error # "")
       /\ pc = "done" =>
             /\ requests = 1
             /\ exit = "0"
             /\ result.content \in Responses
             /\ stdout = <<[text |-> result.content]>>
       /\ stdout # <<>> => pc = "done"
       /\ exit = "1" => pc = "failed"

C7_Witness ==
    /\ script = "temperature" /\ pc = "failed"
    /\ error = "Timeout"
    /\ requests = 1 /\ cred = "valid"

\* C9: a later run of pdf_loader.py over the same file gets from load() a
\* list equal to the one the first run got, of 2 or more Documents when the
\* run ends in success, whose element 1 carries the metadata of the file's
\* second page; and no step of a run changes the file.
C9_SameListAgain ==
    (script = "pdf_loader" /\ run >= 2) =>
       /\ Loaded => (docs = first /\ Len(docs) = Len(first))
       /\ pc = "done" =>
             /\ Len(docs) >= 2
             /\ Item(docs, 1).metadata = [source |-> "dl-curriculum.pdf", page |-> 1]
             /\ Item(first, 1).metadata = Item(docs, 1).metadata

C9_FileUnchanged == [][pdf' = pdf]_vars

====
